---- MODULE Spec2Model ----
(***************************************************************************)
(* The expense ledger of app/page.tsx: the record store (React state       *)
(* `expenses`), its persisted mirror (localStorage under storageKey), the  *)
(* active month key, the two mount effects, the submit / delete / month    *)
(* handlers and the derived views (monthExpenses, topCategories).          *)
(*                                                                         *)
(* Units: a stored amount is an integer number of cents; the text typed   *)
(* into the amount field is a decimal given in thousandths, so that        *)
(* toFixed(2) has something to round.  A date string "YYYY-MM-DD" is the   *)
(* record [y, m, d].  Time is counted in minutes since 1970-01-01 UTC.     *)
(***************************************************************************)
EXTENDS Integers, Sequences, FiniteSets, TLC

VARIABLES
    expenses,        \* useState<Expense[]>: the record store
    activeMonthKey,  \* useState: the month key selected for display
    mirror,          \* localStorage[storageKey]
    pending,         \* the state updates queued by startTransition in the load effect
    stored,          \* what kind of value the load effect of this page session read
    pc,              \* position in the page session's life cycle
    clock,           \* number of ids handed out by handleSubmit (Date.now / randomUUID)
    env,             \* the browser: crypto.randomUUID present, timezone offset, today
    last             \* the event handled last and its input

vars == <<expenses, activeMonthKey, mirror, pending, stored, pc, clock, env, last>>

----------------------------------------------------------------------------
(* Bounds of the model *)

\* successful submissions per behaviour
MaxCreates == 2

----------------------------------------------------------------------------
(* Data *)

CATEGORIES == <<"Housing", "Food", "Transport", "Utilities", "Health", "Leisure", "Other">>

Range(s) == {s[i] : i \in 1..Len(s)}

\* A value of localStorage.getItem: null, or a string.  A string is modelled
\* by whether JSON.parse accepts it and, if so, by the array it denotes: one
\* tuple <<id, label, category, amount, date>> per array element.
Null == [present |-> FALSE, wellFormed |-> FALSE, items |-> <<>>]

Garbage == [present |-> TRUE, wellFormed |-> FALSE, items |-> <<>>]

NoDate == [y |-> 0, m |-> 0, d |-> 0]

NoId == [kind |-> "none", n |-> 0]

NoDraft ==
    [label |-> <<>>, amount |-> [kind |-> "empty", val |-> 0],
     category |-> "Housing", date |-> NoDate]

NoKey == <<0, 0>>

NoUpdate == [has |-> FALSE, expenses |-> <<>>, setKey |-> FALSE, key |-> NoKey]

----------------------------------------------------------------------------
(* The calendar behind Date *)

IsLeap(y) == (y % 4 = 0 /\ y % 100 /= 0) \/ y % 400 = 0

DaysInMonth(y, m) ==
    IF m = 2 THEN (IF IsLeap(y) THEN 29 ELSE 28)
    ELSE IF m \in {4, 6, 9, 11} THEN 30 ELSE 31

RECURSIVE DaysBeforeMonth(_, _)
DaysBeforeMonth(y, m) ==
    IF m = 1 THEN 0 ELSE DaysBeforeMonth(y, m - 1) + DaysInMonth(y, m - 1)

\* days from 1970-01-01 to the first of January of year y
DaysBeforeYear(y) ==
    365 * (y - 1970) + ((y - 1969) \div 4) - ((y - 1901) \div 100) + ((y - 1601) \div 400)

DayNumber(date) ==
    DaysBeforeYear(date.y) + DaysBeforeMonth(date.y, date.m) + (date.d - 1)

PrevDay(date) ==
    IF date.d > 1 THEN [date EXCEPT !.d = date.d - 1]
    ELSE IF date.m > 1
         THEN [y |-> date.y, m |-> date.m - 1, d |-> DaysInMonth(date.y, date.m - 1)]
         ELSE [y |-> date.y - 1, m |-> 12, d |-> 31]

NextDay(date) ==
    IF date.d < DaysInMonth(date.y, date.m) THEN [date EXCEPT !.d = date.d + 1]
    ELSE IF date.m < 12 THEN [y |-> date.y, m |-> date.m + 1, d |-> 1]
         ELSE [y |-> date.y + 1, m |-> 1, d |-> 1]

\* new Date("YYYY-MM-DD").getTime(): midnight UTC of that day, in minutes
ParseTime(date) == DayNumber(date) * 1440

\* new Date(year, monthIndex, day).getTime(): midnight local time, in minutes
LocalMidnight(date, offset) == DayNumber(date) * 1440 + offset

\* The calendar day that holds minute t (t counted from 1970-01-01 00:00 of the
\* same clock), for a t within a day of `near`.
DayOfMinute(t, near) ==
    LET n == t \div 1440 IN
    IF n = DayNumber(near) THEN near
    ELSE IF n < DayNumber(near) THEN PrevDay(near) ELSE NextDay(near)

\* getFullYear / getMonth / getDate of a Date at UTC minute t, in a browser
\* whose getTimezoneOffset() is `offset` (minutes, positive west of Greenwich)
LocalFields(t, near, offset) == DayOfMinute(t - offset, near)

getMonthKeyAt(t, near, offset) ==
    LET f == LocalFields(t, near, offset) IN <<f.y, f.m>>

\* getMonthKey(new Date(dateString))
getMonthKey(date, offset) == getMonthKeyAt(ParseTime(date), date, offset)

\* toLocalDateInput(new Date(year, monthIndex, day))
toLocalDateInput(date, offset) ==
    LET t == LocalMidnight(date, offset) IN DayOfMinute(t - offset, date)

----------------------------------------------------------------------------
(* String and number conversions used by handleSubmit *)

\* String.prototype.trim on a sequence of characters
RECURSIVE TrimStart(_)
TrimStart(s) ==
    IF s /= <<>> /\ Head(s) = " " THEN TrimStart(Tail(s)) ELSE s

RECURSIVE TrimEnd(_)
TrimEnd(s) ==
    IF s /= <<>> /\ s[Len(s)] = " " THEN TrimEnd(SubSeq(s, 1, Len(s) - 1)) ELSE s

trim(s) == TrimEnd(TrimStart(s))

\* Number(form.amount): "" is 0, text that is no number is NaN, a decimal
\* is its value (in thousandths)
NaN == [nan |-> TRUE, val |-> 0]

Number(text) ==
    IF text.kind = "numeric" THEN [nan |-> FALSE, val |-> text.val]
    ELSE IF text.kind = "empty" THEN [nan |-> FALSE, val |-> 0]
    ELSE NaN

\* !amount: 0 and NaN are falsy
Falsy(amount) == amount.nan \/ amount.val = 0

Abs(x) == IF x < 0 THEN -x ELSE x

Sign(x) == IF x < 0 THEN -1 ELSE 1

\* toFixed(2) keeps the hundredths and cuts the rest without looking at it
toFixedTruncating(thousandths) == Sign(thousandths) * (Abs(thousandths) \div 10)

\* Number(amount.toFixed(2)), in cents: the n with n/100 closest to |x|, the
\* larger n on a tie, the sign put back
toFixed2(thousandths) == Sign(thousandths) * ((Abs(thousandths) + 5) \div 10)

\* the guard of handleSubmit, lines 155-158: TRUE when the draft is dropped
Rejected(form) ==
    LET amount == Number(form.amount) IN
    trim(form.label) = <<>> \/ Falsy(amount) \/ amount.nan

----------------------------------------------------------------------------
(* Sorting by date, newest first *)

\* (a, b) => new Date(b.date).getTime() - new Date(a.date).getTime()
CompareDateDesc(a, b) == ParseTime(b.date) - ParseTime(a.date)

\* put x, which stood before all of `sorted`, where a stable sort puts it
RECURSIVE InsertByDate(_, _)
InsertByDate(x, sorted) ==
    IF sorted = <<>> THEN <<x>>
    ELSE IF CompareDateDesc(x, Head(sorted)) <= 0 THEN <<x>> \o sorted
    ELSE <<Head(sorted)>> \o InsertByDate(x, Tail(sorted))

\* the sort keeps the order it is given
SortLeavesOrder(xs) == xs

\* Array.prototype.sort (stable) with CompareDateDesc
RECURSIVE SortByDateDesc(_)
SortByDateDesc(xs) ==
    IF xs = <<>> THEN <<>>
    ELSE InsertByDate(Head(xs), SortByDateDesc(Tail(xs)))

----------------------------------------------------------------------------
(* Serialization: JSON.stringify / JSON.parse of the store *)

EncodeExpense(e) == <<e.id, e.label, e.category, e.amount, e.date>>

DecodeExpense(t) ==
    [id |-> t[1], label |-> t[2], category |-> t[3], amount |-> t[4], date |-> t[5]]

JSONstringify(xs) ==
    [present |-> TRUE, wellFormed |-> TRUE,
     items |-> [i \in 1..Len(xs) |-> EncodeExpense(xs[i])]]

\* JSON.parse: throws on text that is no JSON
JSONparse(text) ==
    IF text.wellFormed
    THEN [ok |-> TRUE, value |-> [i \in 1..Len(text.items) |-> DecodeExpense(text.items[i])]]
    ELSE [ok |-> FALSE, value |-> <<>>]

\* a store of no records is taken for no stored value at all
TruthyUnlessEmptyList(value) == value.present /\ value.items /= <<>>

\* if (stored): null is falsy, every string the page writes is non-empty
Truthy(value) == value.present

----------------------------------------------------------------------------
(* Ids *)

\* crypto.randomUUID(): a value never handed out before; the n-th one
UUID(n) == [kind |-> "uuid", n |-> n, label |-> <<>>, date |-> NoDate]

\* `${Date.now()}`: the clock reading, which moves on between two submissions
Timestamp(n) == [kind |-> "ts", n |-> n, label |-> <<>>, date |-> NoDate]

\* `${item.label}-${item.date}`
LabelDate(label, date) == [kind |-> "text", n |-> 0, label |-> label, date |-> date]

IdOf(e) == e.id

Ids(xs) == {IdOf(xs[i]) : i \in 1..Len(xs)}

----------------------------------------------------------------------------
(* The seed generator *)

\* the sample of createSeedExpenses: label, category, amount (cents), day of month
Sample ==
    << [label |-> <<"Morning", " ", "coffee">>,   category |-> "Food",      amount |-> 450,  day |-> 2],
       [label |-> <<"Weekly", " ", "groceries">>, category |-> "Food",      amount |-> 8620, day |-> 3],
       [label |-> <<"Metro", " ", "pass">>,       category |-> "Transport", amount |-> 2800, day |-> 5],
       [label |-> <<"Electric", " ", "bill">>,    category |-> "Utilities", amount |-> 6475, day |-> 7],
       [label |-> <<"Yoga", " ", "class">>,       category |-> "Health",    amount |-> 2200, day |-> 10] >>

\* the seed is dated in the month after the current one
createSeedExpensesNextMonth(environment) ==
    [i \in 1..Len(Sample) |->
        LET date == [y |-> environment.today.y, m |-> environment.today.m + 1,
                     d |-> Sample[i].day]
        IN [id |-> UUID(i), label |-> Sample[i].label, category |-> Sample[i].category,
            amount |-> Sample[i].amount, date |-> date]]

createSeedExpenses(environment) ==
    [i \in 1..Len(Sample) |->
        LET date == toLocalDateInput([y |-> environment.today.y, m |-> environment.today.m,
                                      d |-> Sample[i].day], environment.offset)
        IN [id |-> IF environment.uuid THEN UUID(i) ELSE LabelDate(Sample[i].label, date),
            label |-> Sample[i].label, category |-> Sample[i].category,
            amount |-> Sample[i].amount, date |-> date]]

----------------------------------------------------------------------------
(* Derived views *)

monthExpenses(xs, key, offset) ==
    LET InMonth(e) == getMonthKey(e.date, offset) = key IN SelectSeq(xs, InMonth)

\* the set of month keys of the store (the option values of the month select)
MonthKeys(xs, offset) == {getMonthKey(xs[i].date, offset) : i \in 1..Len(xs)}

RECURSIVE Sum(_)
Sum(xs) == IF xs = <<>> THEN 0 ELSE Head(xs).amount + Sum(Tail(xs))

monthTotal(xs) == Sum(xs)

\* acc[expense.category] = (acc[expense.category] ?? 0) + expense.amount; the
\* tally is a sequence of <<category, sum>> in the order the keys were added,
\* which is the order Object.entries lists them in
AddToTally(acc, e) ==
    IF \E i \in 1..Len(acc) : acc[i][1] = e.category
    THEN [i \in 1..Len(acc) |->
            IF acc[i][1] = e.category THEN <<acc[i][1], acc[i][2] + e.amount>> ELSE acc[i]]
    ELSE Append(acc, <<e.category, e.amount>>)

RECURSIVE Tally(_, _)
Tally(acc, xs) ==
    IF xs = <<>> THEN acc ELSE Tally(AddToTally(acc, Head(xs)), Tail(xs))

RECURSIVE InsertBySum(_, _)
InsertBySum(x, sorted) ==
    IF sorted = <<>> THEN <<x>>
    ELSE IF Head(sorted)[2] - x[2] <= 0 THEN <<x>> \o sorted
    ELSE <<Head(sorted)>> \o InsertBySum(x, Tail(sorted))

\* .sort(([, a], [, b]) => b - a), stable
RECURSIVE SortBySumDesc(_)
SortBySumDesc(entries) ==
    IF entries = <<>> THEN <<>>
    ELSE InsertBySum(Head(entries), SortBySumDesc(Tail(entries)))

slice(xs, n) == SubSeq(xs, 1, IF Len(xs) < n THEN Len(xs) ELSE n)

\* the tally is cut to three entries before it is sorted
topCategoriesSliceFirst(xs) == SortBySumDesc(slice(Tally(<<>>, xs), 3))

topCategories(xs) == slice(SortBySumDesc(Tally(<<>>, xs)), 3)

----------------------------------------------------------------------------
(* Inputs *)

\* the day the page runs on
Today == [y |-> 2024, m |-> 3, d |-> 15]

\* browsers: with or without crypto.randomUUID, west or east of Greenwich
Envs == [uuid : BOOLEAN, offset : {300, -120}, today : {Today}]

Numeric(v) == [kind |-> "numeric", val |-> v]

EmptyText == [kind |-> "empty", val |-> 0]

OtherText == [kind |-> "text", val |-> 0]

Draft(label, amount, category, date) ==
    [label |-> label, amount |-> amount, category |-> category, date |-> date]

FebLast == [y |-> 2024, m |-> 2, d |-> 29]

MarFirst == [y |-> 2024, m |-> 3, d |-> 1]

MarTwelfth == [y |-> 2024, m |-> 3, d |-> 12]

\* what the form can hold when it is submitted (amounts in thousandths)
Drafts ==
    { Draft(<<>>,                Numeric(12000),  "Food",    MarTwelfth),
      Draft(<<" ", " ">>,        Numeric(12000),  "Food",    MarTwelfth),
      Draft(<<"rent">>,          EmptyText,       "Housing", MarTwelfth),
      Draft(<<"rent">>,          OtherText,       "Housing", MarTwelfth),
      Draft(<<"rent">>,          Numeric(0),      "Housing", MarTwelfth),
      Draft(<<"refund">>,        Numeric(-5000),  "Other",   MarTwelfth),
      Draft(<<"gum">>,           Numeric(4),      "Food",    MarFirst),
      Draft(<<" ", "tea", " ">>, Numeric(12346),  "Leisure", FebLast),
      Draft(<<"bus">>,           Numeric(2125),   "Transport", MarFirst) }

Event(op, form, id, store, settled) ==
    [op |-> op, form |-> form, id |-> id, store |-> store, settled |-> settled]

----------------------------------------------------------------------------
(* The mount effects *)

\* a stored value that does not parse is replaced by the seed
LoadEffectReseeding(value, environment) ==
    IF Truthy(value) /\ JSONparse(value).ok
    THEN [update |-> [has |-> TRUE, expenses |-> JSONparse(value).value,
                      setKey |-> FALSE, key |-> NoKey],
          mirror |-> value]
    ELSE [update |-> [has |-> TRUE, expenses |-> createSeedExpenses(environment),
                      setKey |-> FALSE, key |-> NoKey],
          mirror |-> JSONstringify(createSeedExpenses(environment))]

\* useEffect(..., []), lines 70-95: the state updates it queues in a
\* transition and the value it leaves in localStorage
LoadEffect(value, environment) ==
    IF Truthy(value)
    THEN LET r == JSONparse(value) IN
         IF r.ok
         THEN LET sorted == SortByDateDesc(r.value) IN
              [update |-> [has |-> TRUE, expenses |-> r.value,
                           setKey |-> sorted /= <<>>,
                           key |-> IF sorted /= <<>>
                                   THEN getMonthKey(sorted[1].date, environment.offset)
                                   ELSE NoKey],
               mirror |-> value]
         ELSE \* catch: console.error and nothing else
              [update |-> NoUpdate, mirror |-> value]
    ELSE LET seed == createSeedExpenses(environment) IN
         [update |-> [has |-> TRUE, expenses |-> seed, setKey |-> FALSE, key |-> NoKey],
          mirror |-> JSONstringify(seed)]

\* useEffect(..., [expenses]), lines 97-100: the value it leaves in localStorage
PersistEffect(before, xs) == JSONstringify(xs)

\* const stored = localStorage.getItem(storageKey), by kind
KindOf(value) ==
    IF ~value.present THEN "absent" ELSE IF value.wellFormed THEN "list" ELSE "malformed"

InitialMonthKey(environment) == <<environment.today.y, environment.today.m>>

Init ==
    /\ expenses = <<>>
    /\ env \in Envs
    /\ activeMonthKey = InitialMonthKey(env)
    /\ mirror \in {Null, Garbage}
    /\ pending = NoUpdate
    /\ stored = "none"
    /\ pc = "mount"
    /\ clock = 0
    /\ last = Event("open", NoDraft, NoId, <<>>, FALSE)

\* The first commit of Home: both effects run back to back, the load effect
\* first, the persist effect second with the `expenses` of the first render.
Mount ==
    /\ pc = "mount"
    /\ LET loaded == LoadEffect(mirror, env) IN
       /\ stored' = KindOf(mirror)
       /\ pending' = loaded.update
       /\ mirror' = PersistEffect(loaded.mirror, expenses)
       /\ pc' = IF loaded.update.has THEN "transition" ELSE "ready"
    /\ UNCHANGED <<expenses, activeMonthKey, clock, env, last>>

\* React renders and commits the updates queued by startTransition
CommitTransition ==
    /\ pc = "transition"
    /\ expenses' = pending.expenses
    /\ activeMonthKey' = IF pending.setKey THEN pending.key ELSE activeMonthKey
    /\ pending' = NoUpdate
    /\ pc' = "commit"
    /\ UNCHANGED <<mirror, stored, clock, env, last>>

\* the persist effect of that commit
PersistAfterCommit ==
    /\ pc = "commit"
    /\ mirror' = PersistEffect(mirror, expenses)
    /\ pc' = "ready"
    /\ UNCHANGED <<expenses, activeMonthKey, pending, stored, clock, env, last>>

----------------------------------------------------------------------------
(* The event handlers.  An update made in a submit or click handler is     *)
(* rendered, committed and followed by its effects before the next event   *)
(* is handled, so a handler and the persist effect it causes are one step. *)

NewId(environment, n) ==
    IF environment.uuid THEN UUID(Len(Sample) + n) ELSE Timestamp(n)

newExpense(form, environment, n) ==
    [id |-> NewId(environment, n),
     label |-> trim(form.label),
     amount |-> toFixed2(Number(form.amount).val),
     category |-> form.category,
     date |-> form.date]

handleSubmit(form) ==
    /\ pc = "ready"
    /\ last' = Event("submit", form, NoId, <<>>, FALSE)
    /\ IF Rejected(form)
       THEN UNCHANGED <<expenses, activeMonthKey, mirror, clock>>
       ELSE /\ clock < MaxCreates
            /\ expenses' = SortByDateDesc(<<newExpense(form, env, clock + 1)>> \o expenses)
            /\ activeMonthKey' = getMonthKey(form.date, env.offset)
            /\ mirror' = PersistEffect(mirror, expenses')
            /\ clock' = clock + 1
    /\ UNCHANGED <<pending, stored, pc, env>>

\* the record is kept when its category differs
KeepsOtherCategory(e, id) == \A x \in {y \in Range(expenses) : y.id = id} : e.category /= x.category

\* (expense) => expense.id !== id
Keeps(e, id) == e.id /= id

handleDelete(id) ==
    /\ pc = "ready"
    /\ last' = Event("delete", NoDraft, id, <<>>, FALSE)
    /\ LET Kept(e) == Keeps(e, id) IN expenses' = SelectSeq(expenses, Kept)
    /\ mirror' = PersistEffect(mirror, expenses')
    /\ UNCHANGED <<activeMonthKey, pending, stored, pc, clock, env>>

\* onChange of the month select: one option per month of the store, or the
\* current month when the store is empty
MonthOptions ==
    IF expenses = <<>> THEN {InitialMonthKey(env)} ELSE MonthKeys(expenses, env.offset)

selectMonth(key) ==
    /\ pc = "ready"
    /\ activeMonthKey' = key
    /\ last' = Event("select", NoDraft, NoId, <<>>, FALSE)
    /\ UNCHANGED <<expenses, mirror, pending, stored, pc, clock, env>>

\* The page is closed or reloaded and opened again: React state is gone,
\* localStorage stays.
Reload ==
    /\ pc /= "mount"
    /\ expenses' = <<>>
    /\ activeMonthKey' = InitialMonthKey(env)
    /\ pending' = NoUpdate
    /\ stored' = "none"
    /\ pc' = "mount"
    /\ last' = Event("reload", NoDraft, NoId, expenses, pc = "ready")
    /\ UNCHANGED <<mirror, clock, env>>

Submit == \E form \in Drafts : handleSubmit(form)

\* the Remove buttons of the listed records, and a second click on one
Delete == \E id \in Ids(expenses) \cup {last.id} : handleDelete(id)

Select == \E key \in MonthOptions : selectMonth(key)

Next ==
    \/ Mount
    \/ CommitTransition
    \/ PersistAfterCommit
    \/ Submit
    \/ Delete
    \/ Select
    \/ Reload

Spec == Init /\ [][Next]_vars

----------------------------------------------------------------------------
(* Vocabulary of the properties *)

\* a step taken by handleSubmit / handleDelete: the handlers run only on a
\* loaded page and record themselves in last
SubmitStep == pc = "ready" /\ last'.op = "submit"

DeleteStep == pc = "ready" /\ last'.op = "delete"

BlankLabel(label) == \A i \in 1..Len(label) : label[i] = " "

PositiveAmount(text) == text.kind = "numeric" /\ text.val > 0

InvalidDraft(form) == BlankLabel(form.label) \/ ~PositiveAmount(form.amount)

ValidDraft(form) == ~BlankLabel(form.label) /\ PositiveAmount(form.amount)

\* the number of records of xs equal to e
Count(xs, e) == Cardinality({i \in 1..Len(xs) : xs[i] = e})

\* xs without its i-th record
Without(xs, i) == SubSeq(xs, 1, i - 1) \o SubSeq(xs, i + 1, Len(xs))

\* date a is not before date b
NotBefore(a, b) ==
    \/ a.y > b.y
    \/ a.y = b.y /\ a.m > b.m
    \/ a.y = b.y /\ a.m = b.m /\ a.d >= b.d

\* the page has just finished loading: no event handled since it was opened
JustLoaded == pc = "ready" /\ last.op \in {"open", "reload"}

----------------------------------------------------------------------------
(* C1 *)

\* C1: a submission with a blank label, or with an amount that is no number,
\* zero or negative, leaves the store as it was.
C1_InvalidDraftLeavesStore ==
    [][(SubmitStep /\ InvalidDraft(last'.form)) => expenses' = expenses]_vars

----------------------------------------------------------------------------
(* C2 *)

\* C2: a submission with a non-blank label and a positive amount makes the
\* store one record longer, keeps every record it held, and the record it adds
\* carries the amount typed, rounded to the nearest cent.
C2_ValidCreateAddsOneRounded ==
    [][(SubmitStep /\ ValidDraft(last'.form)) =>
          /\ Len(expenses') = Len(expenses) + 1
          /\ \A e \in Range(expenses) : Count(expenses', e) = Count(expenses, e)
          /\ \E i \in 1..Len(expenses') :
                /\ expenses'[i].id \notin Ids(expenses)
                /\ Abs(10 * expenses'[i].amount - last'.form.amount.val) <= 5
                /\ Range(Without(expenses', i)) = Range(expenses)
      ]_vars

\* a valid draft of 12.346 was submitted to a store of several records and is
\* held as 12.35
C2_Witness ==
    /\ last.op = "submit"
    /\ ValidDraft(last.form)
    /\ last.form.amount.val = 12346
    /\ Len(expenses) >= 3
    /\ \E i \in 1..Len(expenses) : expenses[i].amount = 1235

----------------------------------------------------------------------------
(* C3 *)

\* C3: deleting an id the store does not hold leaves the store as it was;
\* deleting an id it holds removes that one record and nothing else.
C3_DeleteRemovesExactlyThatRecord ==
    [][DeleteStep =>
          IF last'.id \notin Ids(expenses)
          THEN expenses' = expenses
          ELSE /\ Len(expenses') = Len(expenses) - 1
               /\ last'.id \notin Ids(expenses')
               /\ \E i \in 1..Len(expenses) :
                     expenses[i].id = last'.id /\ expenses' = Without(expenses, i)
      ]_vars

\* one of the five seed records was deleted, the other four are in place
C3_Witness ==
    /\ last.op = "delete"
    /\ last.id.kind /= "none"
    /\ stored = "absent"
    /\ clock = 0
    /\ Len(expenses) = 4

----------------------------------------------------------------------------
(* C4 *)

\* C4 as stated: after loading a stored value that does not parse, the store
\* holds the seed records and the mirror holds that seed.
C4_MalformedIsReseeded ==
    (JustLoaded /\ stored = "malformed") =>
        /\ Len(expenses) = 5
        /\ \A i \in 1..Len(expenses) : expenses[i].label = Sample[i].label
        /\ mirror = JSONstringify(expenses)

\* C4 as amended: after loading a stored value that does not parse, no update
\* is queued, the store is empty, and the mirror holds the empty list.
C4_MalformedLeavesStoreEmpty ==
    (stored = "malformed" /\ pc /= "mount") =>
        /\ pc = "ready"
        /\ pending = NoUpdate
        /\ JustLoaded => (expenses = <<>> /\ mirror = JSONstringify(<<>>))

\* the page has loaded a stored value that does not parse
C4_Witness == JustLoaded /\ stored = "malformed" /\ mirror.wellFormed

----------------------------------------------------------------------------
(* C5 *)

\* C5: a store that was persisted when the page was left is the store the
\* next page session loads, record for record.
C5_RoundTrip ==
    (last.op = "reload" /\ last.settled /\ pc \in {"commit", "ready"}) =>
        /\ Range(expenses) = Range(last.store)
        /\ Len(expenses) = Len(last.store)

\* a store of seed and created records has come back from the mirror
C5_Witness ==
    /\ last.op = "reload"
    /\ last.settled
    /\ pc = "ready"
    /\ Len(last.store) >= 3
    /\ clock > 0
    /\ expenses = last.store

----------------------------------------------------------------------------
(* C6 *)

\* C6: whenever the page is loaded and idle the mirror is the serialization of
\* the store, and no step takes a record out of the mirror except the
\* deletion of that record.
C6_MirrorInSyncAndNeverDrops ==
    [][/\ pc' = "ready" => mirror' = JSONstringify(expenses')
       /\ (mirror.wellFormed /\ mirror'.wellFormed) =>
             \A t \in Range(mirror.items) \ Range(mirror'.items) :
                 DeleteStep /\ t[1] = last'.id
      ]_vars

----------------------------------------------------------------------------
(* C7 *)

SeedLoaded ==
    /\ Len(expenses) = 5
    /\ \A i \in 1..Len(expenses) :
          /\ expenses[i].date.y = env.today.y
          /\ expenses[i].date.m = env.today.m
          /\ getMonthKey(expenses[i].date, env.offset) = InitialMonthKey(env)
    /\ {expenses[i].date.d : i \in 1..Len(expenses)} = {2, 3, 5, 7, 10}
    /\ Cardinality(Ids(expenses)) = 5
    /\ mirror = JSONstringify(expenses)

----------------------------------------------------------------------------
(* C8 *)

\* C8: every record of the store has an amount above zero.
C8_AmountsPositive == \A i \in 1..Len(expenses) : expenses[i].amount > 0

----------------------------------------------------------------------------
(* C9 *)

ActiveMonth == monthExpenses(expenses, activeMonthKey, env.offset)

CategoryTotal(xs, c) ==
    LET Of(e) == e.category = c IN monthTotal(SelectSeq(xs, Of))

CategoriesOf(xs) == {xs[i].category : i \in 1..Len(xs)}

\* C9: the top categories of the active month are at most three, listed by sum
\* from the largest down, each with the total of its category in that month,
\* none left out that has a larger sum than one listed, and none at all when
\* the month has no records.
C9_TopCategories ==
    LET month == ActiveMonth
        top == topCategories(month)
        listed == {top[i][1] : i \in 1..Len(top)}
    IN  /\ Len(top) <= 3
        /\ Cardinality(listed) = Len(top)
        /\ listed \subseteq CategoriesOf(month)
        /\ Cardinality(CategoriesOf(month)) >= 3 => Len(top) = 3
        /\ Cardinality(CategoriesOf(month)) < 3 => listed = CategoriesOf(month)
        /\ \A i \in 1..Len(top) : top[i][2] = CategoryTotal(month, top[i][1])
        /\ \A i \in 1..(Len(top) - 1) : top[i][2] >= top[i + 1][2]
        /\ \A c \in CategoriesOf(month) \ listed :
              \A i \in 1..Len(top) : top[i][2] >= CategoryTotal(month, c)
        /\ month = <<>> => top = <<>>

\* the active month holds records of more than three categories, the store
\* re-sorted by a submission
C9_Witness ==
    /\ pc = "ready"
    /\ clock > 0
    /\ Cardinality(CategoriesOf(ActiveMonth)) > 3
    /\ Len(topCategories(ActiveMonth)) = 3

----------------------------------------------------------------------------
(* C10 *)

Accepted == last.op = "submit" /\ ~Rejected(last.form)

\* C10: after a submission that was accepted, every record of the store is
\* dated no earlier than the record that follows it.
C10_SortedAfterCreate ==
    Accepted =>
        \A i \in 1..(Len(expenses) - 1) :
            NotBefore(expenses[i].date, expenses[i + 1].date)

\* a record was added to the five seed records, which are generated oldest
\* first
C10_Witness ==
    /\ Accepted
    /\ Len(expenses) = 6
    /\ clock = 1
    /\ last.form.date = FebLast
    /\ expenses[6].date = FebLast

----------------------------------------------------------------------------
(* C11 *)

SelectStep == pc = "ready" /\ last'.op = "select"

\* the year and month written in a date string
YearMonth(date) == <<date.y, date.m>>

\* C11: an accepted submission makes the active month key the year and month
\* of the record it adds, and that record is among the records shown for the
\* active month; a rejected submission and a deletion leave the active month
\* key as it was; a month selection and a rejected submission leave the store
\* as it was, and a deletion takes out no record but the one named.
C11_ActiveMonthFollowsCreate ==
    [][/\ (SubmitStep /\ ~Rejected(last'.form)) =>
             /\ activeMonthKey' = YearMonth(last'.form.date)
             /\ \E e \in Range(monthExpenses(expenses', activeMonthKey', env.offset)) :
                   e.id \notin Ids(expenses) /\ e.date = last'.form.date
       /\ (SubmitStep /\ Rejected(last'.form)) =>
             activeMonthKey' = activeMonthKey /\ expenses' = expenses
       /\ DeleteStep =>
             /\ activeMonthKey' = activeMonthKey
             /\ \A e \in Range(expenses) : e.id /= last'.id => e \in Range(expenses')
       /\ SelectStep => expenses' = expenses
      ]_vars

====
